---- MODULE Spec2Model ----
(***************************************************************************)
(* A model of SchemaGenerator (src/src/SchemaGenerator.ts): the declaration *)
(* index (inspectNode, appendTypes), root selection (getRootNodes,          *)
(* findNamedNode, partitionFiles) and definition collection (createSchema,  *)
(* createSchemaFromNode, appendRootChildDefinitions).                       *)
(*                                                                         *)
(* Strings the code takes apart (file names, fully qualified names) are     *)
(* sequences: a file name is the sequence of its path segments, a name the  *)
(* sequence of its characters.  The type checker, the node parser and the   *)
(* type formatter are the environment: what they return is chosen           *)
(* nondeterministically from small sets.                                    *)
(***************************************************************************)
EXTENDS Integers, Sequences, FiniteSets, TLC

VARIABLES
    program,            \* this.program: [sourceFiles, rootFileNames]
    pc,                 \* position of the running public method
    fullName,           \* the fullName argument of the running method
    node,               \* the node argument of inspectNode / createSchemaFromNode
    allTypes,           \* the Map<string, ts.Node> the index is built in
    result,             \* what getRootNodes / findNamedNode returned or threw
    rootTypes,          \* createSchema: rootTypes
    rootIndex,          \* createSchema: how many roots forEach has passed
    rootTypeDefinition, \* createSchema: rootTypeDefinition
    definitions,        \* createSchema: the shared definitions mapping
    lastChildren,       \* the DefinitionType children getChildren returned to the last call
    getDefinitionCalls, \* per name: getDefinition calls made by appendRootChildDefinitions
    schema              \* what createSchema / createSchemaFromNode returned or threw

vars == <<program, pc, fullName, node, allTypes, result, rootTypes, rootIndex,
          rootTypeDefinition, definitions, lastChildren, getDefinitionCalls, schema>>

-----------------------------------------------------------------------------
(* Bounds *)

\* declarations in a program (root selection)
MaxDecls == 2
\* children of a container node (inspectNode)
MaxSubnodes == 2
\* type parameters of one declaration
MaxTypeParams == 1
\* roots of one createSchema call
MaxRoots == 2
\* length of what getChildren returns
MaxChildren == 2

-----------------------------------------------------------------------------
(* Strings *)

Q == "\""

\* "<chars>" as a sequence of characters
NameF == <<"F">>
NameG == <<"G">>
RawAF == <<Q, "a", Q, ".", "F">>
RawBF == <<Q, "b", Q, ".", "F">>
RawNG == <<"N", ".", "G">>
Star == <<"*">>

\* s.replace(/".*"\./, ""): the leftmost quote that some later quote-dot
\* follows starts the match, and the greedy .* runs to the last quote-dot.
Closers(s, i) == {j \in (i + 1)..(Len(s) - 1) : s[j] = Q /\ s[j + 1] = "."}

Openers(s) == {i \in 1..Len(s) : s[i] = Q /\ Closers(s, i) # {}}

Min(S) == CHOOSE x \in S : \A y \in S : x <= y

Max(S) == CHOOSE x \in S : \A y \in S : x >= y

ReplaceModulePrefix(s) ==
    IF Openers(s) = {} THEN s
    ELSE LET i == Min(Openers(s))
             j == Max(Closers(s, i))
         IN  SubSeq(s, 1, i - 1) \o SubSeq(s, j + 2, Len(s))

\* fileName.includes("/node_modules/") on an absolute path given by its segments
IncludesNodeModules(fileName) ==
    \E i \in 1..(Len(fileName) - 1) : fileName[i] = "node_modules"

Range(s) == {s[i] : i \in 1..Len(s)}

Occurrences(seq, x) == Cardinality({i \in 1..Len(seq) : seq[i] = x})

-----------------------------------------------------------------------------
(* Map<string, ts.Node>: entries in insertion order; set() on a present key  *)
(* replaces the value and keeps the entry's place.                           *)

MapHas(m, k) == \E i \in 1..Len(m) : m[i].key = k

MapGet(m, k) == m[CHOOSE i \in 1..Len(m) : m[i].key = k].value

MapSet(m, k, v) ==
    IF MapHas(m, k)
    THEN [i \in 1..Len(m) |-> IF m[i].key = k THEN [key |-> k, value |-> v] ELSE m[i]]
    ELSE Append(m, [key |-> k, value |-> v])

MapValues(m) == [i \in 1..Len(m) |-> m[i].value]

-----------------------------------------------------------------------------
(* Syntax nodes *)

DeclarationKinds ==
    {"InterfaceDeclaration", "ClassDeclaration", "EnumDeclaration", "TypeAliasDeclaration"}

\* localSymbolAtNode(node): none, a symbol without exportSymbol, one with it
LocalSymbols == {"none", "local", "exported"}

\* node.typeParameters: undefined, or an array of some length
NoTypeParameters == [defined |-> FALSE, length |-> 0]

TypeParameterArrays ==
    {NoTypeParameters} \cup {[defined |-> TRUE, length |-> n] : n \in 0..MaxTypeParams}

MkNode(id, kind, fileName, localSymbol, typeParameters, symbolName, children) ==
    [id |-> id, kind |-> kind, fileName |-> fileName, localSymbol |-> localSymbol,
     typeParameters |-> typeParameters, symbolName |-> symbolName, children |-> children]

isExportType(n) ==
    IF n.localSymbol # "none" THEN n.localSymbol = "exported" ELSE FALSE

isGenericType_Never(n) == FALSE

isGenericType(n) ==
    n.typeParameters.defined /\ n.typeParameters.length > 0

getFullName(n) == ReplaceModulePrefix(n.symbolName)

RECURSIVE inspectNode(_, _)
RECURSIVE forEachChild(_, _)

inspectNode(n, types) ==
    IF n.kind \in DeclarationKinds
    THEN IF ~isExportType(n) \/ isGenericType(n)
         THEN types
         ELSE MapSet(types, getFullName(n), n)
    ELSE forEachChild(n.children, types)

forEachChild(subnodes, types) ==
    IF subnodes = <<>> THEN types
    ELSE forEachChild(Tail(subnodes), inspectNode(Head(subnodes), types))

\* the declarations under a node, in the order a top-down walk meets them
RECURSIVE DeclarationsIn(_)
RECURSIVE DeclarationsInAll(_)

DeclarationsIn(n) ==
    IF n.kind \in DeclarationKinds THEN <<n>> ELSE DeclarationsInAll(n.children)

DeclarationsInAll(nodes) ==
    IF nodes = <<>> THEN <<>>
    ELSE DeclarationsIn(Head(nodes)) \o DeclarationsInAll(Tail(nodes))

RECURSIVE appendTypes(_, _)

appendTypes(sourceFiles, types) ==
    IF sourceFiles = <<>> THEN types
    ELSE appendTypes(Tail(sourceFiles), inspectNode(Head(sourceFiles), types))

-----------------------------------------------------------------------------
(* Root selection *)

FileA == <<"p", "a.ts">>
FileB == <<"p", "x_node_modules", "b.ts">>
FileExt == <<"p", "node_modules", "d", "i.d.ts">>

FileNames == {FileA, FileB, FileExt}

\* ts.Program: getSourceFiles() and getRootFileNames()
getSourceFiles(prog) == prog.sourceFiles

getRootFileNames(prog) == prog.rootFileNames

partitionFiles(prog) ==
    [projectFiles |->
        SelectSeq(getSourceFiles(prog), LAMBDA f : ~IncludesNodeModules(f.fileName)),
     externalFiles |->
        SelectSeq(getSourceFiles(prog), LAMBDA f : IncludesNodeModules(f.fileName))]

Returned(op, nodes) == [op |-> op, kind |-> "returned", nodes |-> nodes, name |-> <<>>]

NoRootTypeError(op, name) ==
    [op |-> op, kind |-> "NoRootTypeError", nodes |-> <<>>, name |-> name]

NoResult == [op |-> "none", kind |-> "none", nodes |-> <<>>, name |-> <<>>]

\* the outcome of findNamedNode and the map it built
findNamedNode_ProjectOnly(prog, name) ==
    LET projectTypes == appendTypes(partitionFiles(prog).projectFiles, <<>>)
    IN  IF MapHas(projectTypes, name)
        THEN [types |-> projectTypes,
              outcome |-> Returned("findNamedNode", <<MapGet(projectTypes, name)>>)]
        ELSE [types |-> projectTypes, outcome |-> NoRootTypeError("findNamedNode", name)]

findNamedNode_MergedIndex(prog, name) ==
    LET parts == partitionFiles(prog)
        bothTypes == appendTypes(parts.externalFiles, appendTypes(parts.projectFiles, <<>>))
    IN  IF MapHas(bothTypes, name)
        THEN [types |-> bothTypes,
              outcome |-> Returned("findNamedNode", <<MapGet(bothTypes, name)>>)]
        ELSE [types |-> bothTypes, outcome |-> NoRootTypeError("findNamedNode", name)]

findNamedNode(prog, name) ==
    LET parts == partitionFiles(prog)
        projectTypes == appendTypes(parts.projectFiles, <<>>)
        bothTypes == appendTypes(parts.externalFiles, projectTypes)
    IN  IF MapHas(projectTypes, name)
        THEN [types |-> projectTypes,
              outcome |-> Returned("findNamedNode", <<MapGet(projectTypes, name)>>)]
        ELSE IF MapHas(bothTypes, name)
        THEN [types |-> bothTypes,
              outcome |-> Returned("findNamedNode", <<MapGet(bothTypes, name)>>)]
        ELSE [types |-> bothTypes, outcome |-> NoRootTypeError("findNamedNode", name)]

\* fullName: string | undefined
Undefined == [defined |-> FALSE, text |-> <<>>]

Str(text) == [defined |-> TRUE, text |-> text]

Truthy(name) == name.defined /\ name.text # <<>>

IsNamedQuery(name) == Truthy(name) /\ name.text # Star

getRootNodes_AllSourceFiles(prog, name) ==
    IF IsNamedQuery(name)
    THEN LET found == findNamedNode(prog, name.text)
         IN  [types |-> found.types, outcome |-> [found.outcome EXCEPT !.op = "getRootNodes"]]
    ELSE LET rootNodes == appendTypes(getSourceFiles(prog), <<>>)
         IN  [types |-> rootNodes, outcome |-> Returned("getRootNodes", MapValues(rootNodes))]

getRootNodes(prog, name) ==
    IF IsNamedQuery(name)
    THEN LET found == findNamedNode(prog, name.text)
         IN  [types |-> found.types, outcome |-> [found.outcome EXCEPT !.op = "getRootNodes"]]
    ELSE LET rootSourceFiles ==
                 SelectSeq(getSourceFiles(prog),
                           LAMBDA f : f.fileName \in getRootFileNames(prog))
             rootNodes == appendTypes(rootSourceFiles, <<>>)
         IN  [types |-> rootNodes, outcome |-> Returned("getRootNodes", MapValues(rootNodes))]

-----------------------------------------------------------------------------
(* Types, the type formatter and definition collection *)

DefinitionType(name, id) == [isDefinition |-> TRUE, id |-> id, name |-> name]

\* a BaseType that is no DefinitionType
OtherType(id) == [isDefinition |-> FALSE, id |-> id, name |-> ""]

\* child.getType(): the type a DefinitionType wraps
getType(child) == OtherType(child.id)

TypeNames == {"Bar", "Foo", "toString"}

\* what getChildren may list: an id is a type's identity, so it fixes the name
ChildTypes ==
    {DefinitionType("Bar", ""), DefinitionType("Bar", "x"), DefinitionType("Bar", "y"),
     DefinitionType("Foo", "f"), DefinitionType("toString", "t"), OtherType("o")}

\* what createType may return for a root
RootTypeChoices == {DefinitionType("Bar", "x"), OtherType("o")}

\* typeFormatter.getDefinition: a Definition is a mapping from keyword to value
getDefinition(type) ==
    IF type.isDefinition THEN ("$ref" :> <<"#/definitions/", type.name>>)
    ELSE IF type.id = "o"
    THEN ("type" :> <<"object">>) @@ ("definitions" :> <<"nested">>)
    ELSE ("type" :> <<"object">>) @@ ("description" :> <<type.id>>)

getRootTypeDefinition(rootType) == getDefinition(rootType)

\* properties every object literal inherits from Object.prototype
ObjectPrototypeProperties ==
    {"constructor", "hasOwnProperty", "isPrototypeOf", "propertyIsEnumerable",
     "toLocaleString", "toString", "valueOf", "__proto__"}

\* name in definitions, on an object literal
In(name, object) == name \in DOMAIN object \/ name \in ObjectPrototypeProperties

\* a string as a condition
TruthyString(str) == str # ""

\* .filter(child => child instanceof DefinitionType)
DefinitionChildren(children) == SelectSeq(children, LAMBDA child : child.isDefinition)

\* .filter(child => { if (!seen.has(id)) { seen.add(id); return true; } return false; })
RECURSIVE FilterSeen(_, _)

FilterSeen(children, seen) ==
    IF children = <<>> THEN <<>>
    ELSE IF Head(children).id \in seen THEN FilterSeen(Tail(children), seen)
    ELSE <<Head(children)>> \o FilterSeen(Tail(children), seen \cup {Head(children).id})

\* the loop over ids: Map<string, string>
RECURSIVE CheckIds(_, _)

CheckIds(children, ids) ==
    IF children = <<>> THEN [threw |-> FALSE, name |-> ""]
    ELSE LET child == Head(children)
             name == child.name
         IN  IF /\ name \in DOMAIN ids
                /\ TruthyString(ids[name])
                /\ child.id # ids[name]
             THEN [threw |-> TRUE, name |-> name]
             ELSE CheckIds(Tail(children), (name :> child.id) @@ ids)

\* children.reduce(..., childDefinitions)
RECURSIVE Reduce(_, _, _)

Reduce(children, defs, calls) ==
    IF children = <<>> THEN [definitions |-> defs, calls |-> calls]
    ELSE LET child == Head(children)
             name == child.name
         IN  IF ~In(name, defs)
             THEN Reduce(Tail(children),
                         (name :> getDefinition(getType(child))) @@ defs,
                         Append(calls, name))
             ELSE Reduce(Tail(children), defs, calls)

\* one pass that writes each child as soon as it is checked
RECURSIVE CheckAndWrite(_, _, _, _)

CheckAndWrite(children, ids, defs, calls) ==
    IF children = <<>>
    THEN [threw |-> FALSE, name |-> "", definitions |-> defs, calls |-> calls]
    ELSE LET child == Head(children)
             name == child.name
         IN  IF /\ name \in DOMAIN ids
                /\ TruthyString(ids[name])
                /\ child.id # ids[name]
             THEN [threw |-> TRUE, name |-> name, definitions |-> defs, calls |-> calls]
             ELSE IF ~In(name, defs)
             THEN CheckAndWrite(Tail(children), (name :> child.id) @@ ids,
                                (name :> getDefinition(getType(child))) @@ defs,
                                Append(calls, name))
             ELSE CheckAndWrite(Tail(children), (name :> child.id) @@ ids, defs, calls)

appendRootChildDefinitions_WriteWhileChecking(rootType, returned, childDefinitions) ==
    CheckAndWrite(FilterSeen(DefinitionChildren(returned), {}), <<>>, childDefinitions, <<>>)

appendRootChildDefinitions_RootIncluded(rootType, returned, childDefinitions) ==
    LET children == FilterSeen(DefinitionChildren(<<rootType>> \o returned), {})
        check == CheckIds(children, <<>>)
        reduced == Reduce(children, childDefinitions, <<>>)
    IN  IF check.threw
        THEN [threw |-> TRUE, name |-> check.name,
              definitions |-> childDefinitions, calls |-> <<>>]
        ELSE [threw |-> FALSE, name |-> "",
              definitions |-> reduced.definitions, calls |-> reduced.calls]

\* returned: what typeFormatter.getChildren(rootType) returned.  The outcome:
\* whether the call threw (and for which name), the mapping as the call left
\* it, and the names getDefinition was called for.
appendRootChildDefinitions(rootType, returned, childDefinitions) ==
    LET children == FilterSeen(DefinitionChildren(returned), {})
        check == CheckIds(children, <<>>)
        reduced == Reduce(children, childDefinitions, <<>>)
    IN  IF check.threw
        THEN [threw |-> TRUE, name |-> check.name,
              definitions |-> childDefinitions, calls |-> <<>>]
        ELSE [threw |-> FALSE, name |-> "",
              definitions |-> reduced.definitions, calls |-> reduced.calls]

\* new Error(`Type "${name}" has multiple definitions.`)
MultipleDefinitionsError(name) ==
    [kind |-> "Error", document |-> <<>>,
     message |-> <<"Type \"", name, "\" has multiple definitions.">>]

NoRootTypeErrorThrown(name) ==
    [kind |-> "NoRootTypeError", document |-> <<>>, message |-> name]

NoSchema == [kind |-> "none", document |-> <<>>, message |-> <<>>]

Draft07 == <<"http://json-schema.org/draft-07/schema#">>

\* { $schema: ..., ...rootTypeDefinition, definitions }: a later property wins
SchemaDocument(rootDefinition, defs) ==
    ("definitions" :> defs) @@ rootDefinition @@ ("$schema" :> Draft07)

ReturnedSchema(rootDefinition, defs) ==
    [kind |-> "returned", document |-> SchemaDocument(rootDefinition, defs), message |-> <<>>]

\* rootTypes.length === 1 ? this.getRootTypeDefinition(rootTypes[0]) : {}
createSchema_rootTypeDefinition_First(types) ==
    IF Len(types) >= 1 THEN getRootTypeDefinition(types[1]) ELSE <<>>

createSchema_rootTypeDefinition(types) ==
    IF Len(types) = 1 THEN getRootTypeDefinition(types[1]) ELSE <<>>

-----------------------------------------------------------------------------
(* Programs: up to MaxDecls declarations spread over three source files *)

RawAG == <<Q, "a", Q, ".", "G">>

SymbolNames == {RawAF, RawBF, RawAG}

RootDeclShapes ==
    {[kind |-> "InterfaceDeclaration", localSymbol |-> "exported",
      typeParameters |-> NoTypeParameters],
     [kind |-> "InterfaceDeclaration", localSymbol |-> "local",
      typeParameters |-> NoTypeParameters],
     [kind |-> "TypeAliasDeclaration", localSymbol |-> "exported",
      typeParameters |-> [defined |-> TRUE, length |-> 1]]}

\* getSourceFiles() lists the dependency's file after or before the project's
FileOrders == {<<FileA, FileB, FileExt>>, <<FileExt, FileA, FileB>>}

\* the files getRootFileNames() may name
RootFileCandidates == {FileA, FileExt}

DeclNode(k, file, shape, symbolName) ==
    MkNode(k, shape.kind, file, shape.localSymbol, shape.typeParameters, symbolName, <<>>)

SourceFile(file, decls) ==
    MkNode(0, "SourceFile", file, "none", NoTypeParameters, <<>>,
           SelectSeq(decls, LAMBDA d : d.fileName = file))

MkProgram(order, roots, decls) ==
    [sourceFiles |-> [i \in 1..Len(order) |-> SourceFile(order[i], decls)],
     rootFileNames |-> roots]

NoProgram == [sourceFiles |-> <<>>, rootFileNames |-> {}]

NoNode == MkNode(0, "none", <<>>, "none", NoTypeParameters, <<>>, <<>>)

Queries == {Undefined, Str(<<>>), Str(Star), Str(NameF), Str(NameG)}

\* the variables of definition collection, before any createSchema call
CollectorIdle ==
    /\ rootTypes = <<>>
    /\ rootIndex = 0
    /\ rootTypeDefinition = <<>>
    /\ definitions = <<>>
    /\ lastChildren = {}
    /\ getDefinitionCalls = [name \in TypeNames |-> 0]
    /\ schema = NoSchema

collectorVars == <<rootTypes, rootIndex, rootTypeDefinition, definitions,
                   lastChildren, getDefinitionCalls, schema>>

InitRoots ==
    /\ \E order \in FileOrders, roots \in SUBSET RootFileCandidates, n \in 0..MaxDecls :
          \E place \in [1..n -> 1..Len(order)], shape \in [1..n -> RootDeclShapes],
             symbolName \in [1..n -> SymbolNames] :
             \* declarations are numbered in the order of their files
             /\ \A k \in 1..(n - 1) : place[k] <= place[k + 1]
             /\ program = MkProgram(order, roots,
                    [k \in 1..n |-> DeclNode(k, order[place[k]], shape[k], symbolName[k])])
    /\ pc = "idle"
    /\ fullName = Undefined
    /\ node = NoNode
    /\ allTypes = <<>>
    /\ result = NoResult
    /\ CollectorIdle

GetRootNodes(name) ==
    /\ pc = "idle"
    /\ LET r == getRootNodes(program, name)
       IN  /\ allTypes' = r.types
           /\ result' = r.outcome
    /\ fullName' = name
    /\ pc' = "done"
    /\ UNCHANGED <<program, node, collectorVars>>

FindNamedNode(text) ==
    /\ pc = "idle"
    /\ LET r == findNamedNode(program, text)
       IN  /\ allTypes' = r.types
           /\ result' = r.outcome
    /\ fullName' = Str(text)
    /\ pc' = "done"
    /\ UNCHANGED <<program, node, collectorVars>>

NextRoots ==
    \/ \E name \in Queries : GetRootNodes(name)
    \/ \E text \in {NameF, NameG} : FindNamedNode(text)

SpecRoots == InitRoots /\ [][NextRoots]_vars

-----------------------------------------------------------------------------
(* inspectNode on one node: a declaration of any shape, or a container of   *)
(* up to MaxSubnodes declarations                                           *)

DeclShapes ==
    {[kind |-> k, localSymbol |-> l, typeParameters |-> t] :
        k \in DeclarationKinds, l \in LocalSymbols, t \in TypeParameterArrays}
    \ {[kind |-> "EnumDeclaration", localSymbol |-> l, typeParameters |-> t] :
        l \in LocalSymbols, t \in TypeParameterArrays \ {NoTypeParameters}}

SubnodeShapes ==
    {sh \in DeclShapes : /\ sh.kind \in {"InterfaceDeclaration", "TypeAliasDeclaration"}
                         /\ sh.localSymbol # "none"}

PriorNode ==
    MkNode(9, "ClassDeclaration", FileA, "exported", NoTypeParameters, RawAF, <<>>)

PriorIndexes == {<<>>, <<[key |-> NameF, value |-> PriorNode]>>}

InitInspect ==
    /\ \/ \E shape \in DeclShapes, symbolName \in {RawAF, RawBF, RawNG} :
             node = DeclNode(1, FileA, shape, symbolName)
       \/ \E n \in 0..MaxSubnodes, kind \in {"SourceFile", "ModuleDeclaration"} :
             \E shape \in [1..n -> SubnodeShapes], symbolName \in [1..n -> {RawAF, RawNG}] :
                node = MkNode(0, kind, FileA, "none", NoTypeParameters, <<>>,
                           [k \in 1..n |-> DeclNode(k, FileA, shape[k], symbolName[k])])
    /\ allTypes \in PriorIndexes
    /\ program = NoProgram
    /\ pc = "idle"
    /\ fullName = Undefined
    /\ result = NoResult
    /\ CollectorIdle

InspectNode ==
    /\ pc = "idle"
    /\ allTypes' = inspectNode(node, allTypes)
    /\ pc' = "inspected"
    /\ UNCHANGED <<program, fullName, node, result, collectorVars>>

NextInspect == InspectNode

SpecInspect == InitInspect /\ [][NextInspect]_vars

-----------------------------------------------------------------------------
(* createSchema and createSchemaFromNode, one root per step of forEach *)

DeclLetters == <<"F", "G", "H", "I", "J">>

ExportedInterface ==
    [kind |-> "InterfaceDeclaration", localSymbol |-> "exported",
     typeParameters |-> NoTypeParameters]

\* a program whose one root file declares n exported interfaces
ProgramOf(n) ==
    MkProgram(<<FileA>>, {FileA},
        [k \in 1..n |-> DeclNode(k, FileA, ExportedInterface, <<Q, "a", Q, ".", DeclLetters[k]>>)])

ChildSeqs == UNION {[1..n -> ChildTypes] : n \in 0..MaxChildren}

CreateQueries == {Undefined, Str(Star), Str(NameF)}

Init ==
    /\ \E n \in 0..MaxRoots : program = ProgramOf(n)
    /\ pc = "idle"
    /\ fullName = Undefined
    /\ node = NoNode
    /\ allTypes = <<>>
    /\ result = NoResult
    /\ CollectorIdle

\* createSchema up to the forEach: the roots, their types (createType is the
\* node parser's), the root definition and the empty definitions mapping
CreateSchema(name) ==
    /\ pc = "idle"
    /\ fullName' = name
    /\ LET r == getRootNodes(program, name)
       IN  /\ allTypes' = r.types
           /\ result' = r.outcome
           /\ IF r.outcome.kind = "NoRootTypeError"
              THEN /\ pc' = "threw"
                   /\ schema' = NoRootTypeErrorThrown(r.outcome.name)
                   /\ UNCHANGED <<rootTypes, rootTypeDefinition>>
              ELSE /\ \E types \in [1..Len(r.outcome.nodes) -> RootTypeChoices] :
                         /\ rootTypes' = types
                         /\ rootTypeDefinition' = createSchema_rootTypeDefinition(types)
                   /\ pc' = "collecting"
                   /\ schema' = schema
    /\ definitions' = <<>>
    /\ UNCHANGED <<program, node, rootIndex, lastChildren, getDefinitionCalls>>

\* createSchemaFromNode up to its appendRootChildDefinitions call
CreateSchemaFromNode(n) ==
    /\ pc = "idle"
    /\ node' = n
    /\ \E type \in RootTypeChoices :
          /\ rootTypes' = <<type>>
          /\ rootTypeDefinition' = getRootTypeDefinition(type)
    /\ definitions' = <<>>
    /\ pc' = "collecting"
    /\ UNCHANGED <<program, fullName, allTypes, result, rootIndex, lastChildren,
                   getDefinitionCalls, schema>>

\* this.appendRootChildDefinitions(rootType, definitions) for the next root
AppendRootChildDefinitions(returned) ==
    /\ pc = "collecting"
    /\ rootIndex < Len(rootTypes)
    /\ LET r == appendRootChildDefinitions(rootTypes[rootIndex + 1], returned, definitions)
       IN  /\ definitions' = r.definitions
           /\ getDefinitionCalls' =
                 [name \in TypeNames |->
                    getDefinitionCalls[name] + Occurrences(r.calls, name)]
           /\ IF r.threw
              THEN /\ pc' = "threw"
                   /\ schema' = MultipleDefinitionsError(r.name)
                   /\ rootIndex' = rootIndex
              ELSE /\ pc' = "collecting"
                   /\ schema' = schema
                   /\ rootIndex' = rootIndex + 1
    /\ lastChildren' = Range(DefinitionChildren(returned))
    /\ UNCHANGED <<program, fullName, node, allTypes, result, rootTypes, rootTypeDefinition>>

\* return { $schema, ...rootTypeDefinition, definitions }
ReturnSchema ==
    /\ pc = "collecting"
    /\ rootIndex = Len(rootTypes)
    /\ schema' = ReturnedSchema(rootTypeDefinition, definitions)
    /\ pc' = "returned"
    /\ UNCHANGED <<program, fullName, node, allTypes, result, rootTypes, rootIndex,
                   rootTypeDefinition, definitions, lastChildren, getDefinitionCalls>>

Next ==
    \/ \E name \in CreateQueries : CreateSchema(name)
    \/ \E n \in Range(DeclarationsInAll(program.sourceFiles)) : CreateSchemaFromNode(n)
    \/ \E returned \in ChildSeqs : AppendRootChildDefinitions(returned)
    \/ ReturnSchema

Spec == Init /\ [][Next]_vars

-----------------------------------------------------------------------------
(* What the claims speak of *)

HasTypeParameters(d) == d.typeParameters.defined /\ d.typeParameters.length > 0

Exported(d) == d.localSymbol = "exported"

\* exported and without type parameters
Eligible(d) == Exported(d) /\ ~HasTypeParameters(d)

\* exported and, for a type alias only, without type parameters
EligibleAliasOnly(d) ==
    Exported(d) /\ (d.kind = "TypeAliasDeclaration" => ~HasTypeParameters(d))

QualifiedName(d) == ReplaceModulePrefix(d.symbolName)

ProgramDecls == Range(DeclarationsInAll(program.sourceFiles))

EligibleNamed(name) == {d \in ProgramDecls : Eligible(d) /\ QualifiedName(d) = name}

ProjectNamed(name) == {d \in EligibleNamed(name) : ~IncludesNodeModules(d.fileName)}

ExternalNamed(name) == {d \in EligibleNamed(name) : IncludesNodeModules(d.fileName)}

NamedLookupDone ==
    /\ pc = "done"
    /\ \/ result.op = "findNamedNode"
       \/ result.op = "getRootNodes" /\ IsNamedQuery(fullName)

WildcardDone == pc = "done" /\ result.op = "getRootNodes" /\ ~IsNamedQuery(fullName)

\* C3: when an eligible declaration of the requested name is in a project file
\* and another one in an external file, the lookup returns one of the project's.
C3_ProjectShadowsExternal ==
    NamedLookupDone =>
        ((ProjectNamed(fullName.text) # {} /\ ExternalNamed(fullName.text) # {})
            => /\ result.kind = "returned"
               /\ Len(result.nodes) = 1
               /\ result.nodes[1] \in ProjectNamed(fullName.text))

C3_Witness ==
    /\ NamedLookupDone
    /\ ProjectNamed(fullName.text) # {}
    /\ ExternalNamed(fullName.text) # {}
    /\ program.sourceFiles[3].fileName = FileExt
    /\ result.kind = "returned"

\* C4: the lookup throws NoRootTypeError, carrying the requested name, exactly
\* when no eligible declaration of that name is in any source file; otherwise it
\* returns one declaration whose qualified name is the requested one.
C4_NoRootTypeExactlyWhenAbsent ==
    NamedLookupDone =>
        /\ (result.kind = "NoRootTypeError") <=> (EligibleNamed(fullName.text) = {})
        /\ (result.kind = "NoRootTypeError") => (result.name = fullName.text)
        /\ (result.kind # "NoRootTypeError")
              => /\ result.kind = "returned"
                 /\ Len(result.nodes) = 1
                 /\ result.nodes[1] \in ProgramDecls
                 /\ QualifiedName(result.nodes[1]) = fullName.text

C4_Witness ==
    /\ NamedLookupDone
    /\ result.kind = "returned"
    /\ ProjectNamed(fullName.text) = {}
    /\ \E d \in ProgramDecls : ~Eligible(d) /\ QualifiedName(d) = fullName.text

RootFiles == SelectSeq(program.sourceFiles, LAMBDA f : f.fileName \in program.rootFileNames)

RootFileDecls == SelectSeq(DeclarationsInAll(RootFiles), Eligible)

\* C7 as stated: a wildcard or absent query returns every eligible declaration
\* of the root files exactly once, and nothing from any other file.
C7_EveryEligibleRootDeclOnce ==
    WildcardDone =>
        /\ \A d \in Range(RootFileDecls) : Occurrences(result.nodes, d) = 1
        /\ \A d \in Range(result.nodes) : d.fileName \in program.rootFileNames

\* C7 amended: a wildcard or absent query returns only eligible declarations
\* of the root files, none twice, and of the eligible declarations that share
\* a qualified name exactly the one visited last.
C7_LastVisitedPerNameOnce ==
    WildcardDone =>
        /\ result.kind = "returned"
        /\ Range(result.nodes) \subseteq Range(RootFileDecls)
        /\ \A d \in Range(result.nodes) : Occurrences(result.nodes, d) = 1
        /\ \A i \in 1..Len(RootFileDecls) :
              (RootFileDecls[i] \in Range(result.nodes))
                 <=> ~\E j \in (i + 1)..Len(RootFileDecls) :
                        QualifiedName(RootFileDecls[j]) = QualifiedName(RootFileDecls[i])

C7_Witness ==
    /\ WildcardDone
    /\ Len(RootFileDecls) = 2
    /\ QualifiedName(RootFileDecls[1]) = QualifiedName(RootFileDecls[2])
    /\ RootFileDecls[1].symbolName # RootFileDecls[2].symbolName
    /\ result.nodes = <<RootFileDecls[2]>>

Recorded(d) == \E i \in 1..Len(allTypes) : allTypes[i].value = d

\* C8 as stated: inspectNode records a declaration iff it is exported and, for
\* a type alias only, has no type parameters.
C8_GenericExcludedForAliasOnly ==
    (pc = "inspected" /\ node.kind \in DeclarationKinds)
        => (Recorded(node) <=> EligibleAliasOnly(node))

\* C8 amended: inspectNode records a declaration iff it is exported and has no
\* type parameters, whatever its kind (under a container: iff, besides, no
\* later eligible declaration has its qualified name); what was in the index
\* under other names stays.
C8_GenericExcludedForEveryKind ==
    pc = "inspected" =>
        LET decls == DeclarationsIn(node)
        IN  \A i \in 1..Len(decls) :
               Recorded(decls[i])
                  <=> /\ Eligible(decls[i])
                      /\ ~\E j \in (i + 1)..Len(decls) :
                             /\ Eligible(decls[j])
                             /\ QualifiedName(decls[j]) = QualifiedName(decls[i])

C8_Witness ==
    /\ pc = "inspected"
    /\ node.kind = "ClassDeclaration"
    /\ Exported(node)
    /\ HasTypeParameters(node)
    /\ ~Recorded(node)

\* two DefinitionType children with one name and different ids
Collide(a, b) == a.name = b.name /\ a.id # b.id

CollidingNames(children) == {a.name : a \in {c \in children : \E b \in children : Collide(c, b)}}

\* an appendRootChildDefinitions call has been made and is the last thing done
AfterCall ==
    \/ pc = "threw" /\ schema.kind = "Error"
    \/ pc = "collecting" /\ rootIndex > 0

\* C1 as stated: when two of the DefinitionType children of a root have one
\* name and different ids, the call throws an error whose message has the name.
C1_CollisionAlwaysThrows ==
    (AfterCall /\ CollidingNames(lastChildren) # {})
        => /\ pc = "threw"
           /\ schema.kind = "Error"
           /\ \E name \in CollidingNames(lastChildren) : name \in Range(schema.message)

\* C2 as stated: in a document returned for several roots, a definable child
\* of one root never has the name of an entry written for another type.
C2_NoCollisionAcrossRoots ==
    (pc = "returned" /\ Len(rootTypes) >= 2 /\ CollidingNames(lastChildren) = {})
        => \A child \in lastChildren :
              child.name \in DOMAIN definitions
                 => definitions[child.name] = getDefinition(getType(child))

TopLevelKeywords == {"$schema", "definitions"}

\* C5: a returned document has $schema and definitions; for one root its other
\* fields are exactly those of getDefinition(root), with their values; for
\* two or more roots it has no other field.
C5_RootFieldsSpreadForOneRoot ==
    pc = "returned" =>
        LET document == schema.document
            rootFields == DOMAIN getDefinition(rootTypes[1]) \ TopLevelKeywords
        IN  /\ schema.kind = "returned"
            /\ TopLevelKeywords \subseteq DOMAIN document
            /\ document["definitions"] = definitions
            /\ Len(rootTypes) = 1
                  => /\ DOMAIN document \ TopLevelKeywords = rootFields
                     /\ \A field \in rootFields :
                           document[field] = getDefinition(rootTypes[1])[field]
            /\ Len(rootTypes) >= 2 => DOMAIN document = TopLevelKeywords

C5_Witness ==
    /\ pc = "returned"
    /\ Len(rootTypes) = 1
    /\ "type" \in DOMAIN schema.document
    /\ definitions # <<>>

\* C6 as stated: the document of a single-root request has no definitions
\* entry for the root itself.
C6_RootNeverInOwnDefinitions ==
    (pc = "returned" /\ Len(rootTypes) = 1 /\ rootTypes[1].isDefinition)
        => rootTypes[1].name \notin DOMAIN definitions

\* C6 amended: the root is not kept out of the definitions of a single-root
\* document: they have an entry under the root's name only if getChildren(root)
\* returned a DefinitionType child of that name, as it may.
C6_RootInDefinitionsOnlyAsReturnedChild ==
    (pc = "returned" /\ Len(rootTypes) = 1 /\ rootTypes[1].isDefinition)
        => (rootTypes[1].name \in DOMAIN definitions
               => \E child \in lastChildren : child.name = rootTypes[1].name)

C6_Witness ==
    /\ pc = "returned"
    /\ Len(rootTypes) = 1
    /\ rootTypes[1] \in lastChildren
    /\ rootTypes[1].name \in DOMAIN definitions
    /\ definitions[rootTypes[1].name] = getDefinition(getType(rootTypes[1]))

\* C9: a call that throws leaves the definitions mapping as it was and has
\* called getDefinition for no child, and createSchema then returns nothing.
C9_CollisionCheckedBeforeAnyWrite ==
    [][/\ (pc = "collecting" /\ pc' = "threw")
             => /\ definitions' = definitions
                /\ getDefinitionCalls' = getDefinitionCalls
                /\ schema'.kind = "Error"
                /\ schema'.document = <<>>
       /\ pc = "threw" => (pc' = "threw" /\ schema' = schema)]_vars

C9_Witness ==
    /\ pc = "threw"
    /\ schema.kind = "Error"
    /\ rootIndex = 1
    /\ DOMAIN definitions = {"Foo"}
    /\ Cardinality(lastChildren) = 2

\* C10 as stated: over the calls that share one mapping no entry is overwritten
\* or removed, getDefinition is called at most once per name, and after each
\* successful call every DefinitionType child's name is a key of the mapping.
C10_FirstWriterWinsAndEveryChildKeyed ==
    [][(pc = "collecting" /\ pc' = "collecting")
          => /\ \A name \in DOMAIN definitions :
                   name \in DOMAIN definitions' /\ definitions'[name] = definitions[name]
             /\ \A name \in TypeNames : getDefinitionCalls'[name] <= 1
             /\ \A child \in lastChildren' : child.name \in DOMAIN definitions']_vars

====
